---- MODULE Spec2Model ----
(***************************************************************************)
(* rengo: a compiler from a small expression language (integer literals,   *)
(* postfix ++/--, identifiers, let-bindings) to straight-line assembly for *)
(* one accumulator (rax) and stack slots addressed from rsp.               *)
(*                                                                         *)
(* Values are encoded as tagged tuples, tag first:                         *)
(*   Expression   <<"Number", v>>  <<"Increment", e>>  <<"Decrement", e>>  *)
(*                <<"Identifier", n>>  <<"Let", n, value, body>>           *)
(*   Arg          <<"Constant", v>>  <<"Registry", r>>                     *)
(*                <<"RegistryOffset", r, k>>                               *)
(*   Instruction  <<"Inc", a>>  <<"Dec", a>>  <<"Mov", d, s>>              *)
(*                <<"Add", d, s>>  <<"Sub", d, s>>                         *)
(*   Result       <<"Ok", payload>>  <<"Err", payload>>                    *)
(*   Token        <<"Number", v>>  <<"Identifier", name>>  <<"Increment">>  *)
(*                <<"Decrement">>  <<"LParen">>  <<"RParen">>  <<"Assign">> *)
(*                <<"LineEnd">>  <<"Let">>                                 *)
(* Text is a sequence of one-character strings.  Indices into a token      *)
(* slice count from 0 as in the source; positions in a text count from 1.  *)
(***************************************************************************)
EXTENDS Integers, Sequences, FiniteSets, TLC

VARIABLES
    expr,     \* the Expression handed to compile_expression
    pc,       \* position of the run: main, open, scan, tokenized, start, compiled, failed, rendered, ..., exited
    env,      \* the Env (HashMap<String, i64>) owned by the compilation
    result,   \* what compile_expression returned
    text,     \* what asm_to_string returned
    ip,       \* abstract machine: index of the next instruction
    rax,      \* abstract machine: the accumulator
    mem,      \* abstract machine: the written stack slots, slot -> value
    calls,    \* names passed to add, in call order
    slots,    \* slots returned by add, in call order
    found,    \* result of the last env.get
    input,    \* the source text handed to tokenize
    pos,      \* tokenize: position of chars.peek() in input, from 1
    tokens,   \* tokenize: the Vec<Token> built so far; then the slice handed to parse
    lexed,    \* what tokenize returned
    parsed,   \* what parse returned
    effects,  \* main.rs: the file writes and external commands executed, in order
    outcome   \* main.rs: how main ended, << >> while it runs

\* the variables of the front end (tokenize, parse)
front == <<input, pos, tokens, lexed, parsed>>

\* the variables of the driver (main): what it did outside the process and
\* how it ended
driver == <<effects, outcome>>

vars == <<expr, pc, env, result, text, ip, rax, mem, calls, slots, found,
          input, pos, tokens, lexed, parsed, effects, outcome>>

----------------------------------------------------------------------------
(* Bounds of the model *)

\* largest number of AST nodes of an enumerated input expression
MaxNodes == 5

\* largest number of add calls made on one environment
MaxAdds == 4

\* identifiers of the enumerated expressions
Names == {"x", "y"}

\* identifiers handed to add directly
EnvNames == {"x", "y", "z"}

\* literals of the enumerated expressions
Values == {-1, 2}

\* literals compiled and rendered on their own (negative, zero, positive,
\* several digits, the largest magnitudes the checker's integers hold)
SampleValues == {-2147483647, -420, -10, -1, 0, 1, 9, 10, 69, 420, 1000, 2147483647}

\* what an unwritten stack slot may hold when it is read
Garbage == {0, 7}

----------------------------------------------------------------------------
(* src/ast/expr.rs: Expression *)

Number(v) == <<"Number", v>>

Increment(e) == <<"Increment", e>>

Decrement(e) == <<"Decrement", e>>

Identifier(n) == <<"Identifier", n>>

Let(n, v, b) == <<"Let", n, v, b>>

(* src/asm/reg.rs, src/asm/arg.rs, src/asm/instruction.rs *)

Rax == "Rax"

Rsp == "Rsp"

Constant(v) == <<"Constant", v>>

Registry(r) == <<"Registry", r>>

RegistryOffset(r, k) == <<"RegistryOffset", r, k>>

Inc(a) == <<"Inc", a>>

Dec(a) == <<"Dec", a>>

Mov(d, s) == <<"Mov", d, s>>

Add(d, s) == <<"Add", d, s>>

Sub(d, s) == <<"Sub", d, s>>

(* Result<T, E> *)

Ok(v) == <<"Ok", v>>

Err(e) == <<"Err", e>>

IsOk(r) == r[1] = "Ok"

IsErr(r) == r[1] = "Err"

\* the unit value ()
Unit == << >>

----------------------------------------------------------------------------
(* src/env.rs *)

\* Env::new()
EnvNew == [n \in {} |-> 0]

\* env.len()
EnvLen(e) == Cardinality(DOMAIN e)

\* env.insert(name, slot)
EnvInsert(e, name, slot) ==
    [n \in (DOMAIN e) \cup {name} |-> IF n = name THEN slot ELSE e[n]]

\* env.get(name): Some(slot) or None
EnvGet(e, name) == IF name \in DOMAIN e THEN <<"Some", e[name]>> ELSE <<"None">>

\* add that starts a new map holding only the new binding
add_in_new_env(name, e) ==
    LET slot == EnvLen(e) + 1
    IN  [slot |-> slot, env |-> EnvInsert(EnvNew, name, slot)]

\* add written with entry(name).or_insert(slot): a bound name keeps its slot
add_keeps_binding(name, e) ==
    LET slot == EnvLen(e) + 1
    IN  [slot |-> slot,
         env |-> IF name \in DOMAIN e THEN e ELSE EnvInsert(e, name, slot)]

\* add(name, env): the slot returned and the environment left behind
add(name, e) ==
    LET slot == EnvLen(e) + 1
    IN  [slot |-> slot, env |-> EnvInsert(e, name, slot)]

----------------------------------------------------------------------------
(* src/compiler/compile.rs *)

\* the Number arm with the operands of Mov swapped
compile_number_swapped(value) == <<Mov(Constant(value), Registry(Rax))>>

\* the Number arm: one load of the literal into the accumulator
compile_number(value) == <<Mov(Registry(Rax), Constant(value))>>

\* the Increment arm pasted from the Decrement arm
push_inc_as_dec(instructions) == Append(instructions, Dec(Registry(Rax)))

\* the Increment arm after its operand compiled: instructions.push(Inc(rax))
push_inc(instructions) == Append(instructions, Inc(Registry(Rax)))

\* the Decrement arm after its operand compiled: instructions.push(Dec(rax))
push_dec(instructions) == Append(instructions, Dec(Registry(Rax)))

\* the spill of the Let arm written to [rsp + slot]
push_spill_above(instructions, slot) ==
    Append(instructions, Mov(RegistryOffset(Rsp, slot), Registry(Rax)))

\* the Let arm after its value compiled: instructions.push(Mov([rsp - slot], rax))
push_spill(instructions, slot) ==
    Append(instructions, Mov(RegistryOffset(Rsp, -slot), Registry(Rax)))

\* the Identifier arm with env.get(identifier).unwrap_or(&0)
compile_identifier_default(identifier, e) ==
    LET slot == EnvGet(e, identifier)
    IN  IF slot[1] = "None" THEN Ok(<<Mov(Registry(Rax), RegistryOffset(Rsp, 0))>>)
        ELSE Ok(<<Mov(Registry(Rax), RegistryOffset(Rsp, -slot[2]))>>)

\* the Identifier arm: env.get(identifier).ok_or(())? and the load of its slot
compile_identifier(identifier, e) ==
    LET slot == EnvGet(e, identifier)
    IN  IF slot[1] = "None" THEN Err(Unit)
        ELSE Ok(<<Mov(Registry(Rax), RegistryOffset(Rsp, -slot[2]))>>)

RECURSIVE compile_expression(_, _)
\* compile_expression(expression, env): the Result returned and the
\* environment left behind (env is &mut and keeps its changes on Err too)
compile_expression(expression, e) ==
    CASE expression[1] = "Number" ->
            [res |-> Ok(compile_number(expression[2])), env |-> e]
      [] expression[1] = "Increment" ->
            LET r == compile_expression(expression[2], e)
            IN  IF IsErr(r.res) THEN [res |-> Err(r.res[2]), env |-> r.env]
                ELSE [res |-> Ok(push_inc(r.res[2])), env |-> r.env]
      [] expression[1] = "Decrement" ->
            LET r == compile_expression(expression[2], e)
            IN  IF IsErr(r.res) THEN [res |-> Err(r.res[2]), env |-> r.env]
                ELSE [res |-> Ok(push_dec(r.res[2])), env |-> r.env]
      [] expression[1] = "Let" ->
            LET a  == add(expression[2], e)
                rv == compile_expression(expression[3], a.env)
            IN  IF IsErr(rv.res) THEN [res |-> Err(rv.res[2]), env |-> rv.env]
                ELSE
                  LET instructions == push_spill(rv.res[2], a.slot)
                      rb == compile_expression(expression[4], rv.env)
                  IN  IF IsErr(rb.res) THEN [res |-> Err(rb.res[2]), env |-> rb.env]
                      ELSE [res |-> Ok(instructions \o rb.res[2]), env |-> rb.env]
      [] expression[1] = "Identifier" ->
            [res |-> compile_identifier(expression[2], e), env |-> e]

\* main.rs compile(program): compile_expression with a fresh environment
compile(program) == compile_expression(program, EnvNew)

RECURSIVE Calls(_, _)
\* every call of compile_expression made while compiling expression in e:
\* the expression and environment it was entered with and what it returned
Calls(expression, e) ==
    {[expr |-> expression, env |-> e, out |-> compile_expression(expression, e)]}
    \cup
    CASE expression[1] \in {"Increment", "Decrement"} -> Calls(expression[2], e)
      [] expression[1] = "Let" ->
            LET a  == add(expression[2], e)
                rv == compile_expression(expression[3], a.env)
            IN  Calls(expression[3], a.env)
                \cup (IF IsOk(rv.res) THEN Calls(expression[4], rv.env) ELSE {})
      [] OTHER -> {}

----------------------------------------------------------------------------
(* src/asm/to_string.rs *)

DigitChar(d) ==
    CASE d = 0 -> "0" [] d = 1 -> "1" [] d = 2 -> "2" [] d = 3 -> "3" [] d = 4 -> "4"
      [] d = 5 -> "5" [] d = 6 -> "6" [] d = 7 -> "7" [] d = 8 -> "8" [] d = 9 -> "9"

RECURSIVE Digits(_)
\* the decimal digits of a natural number, most significant first
Digits(n) == IF n < 10 THEN <<DigitChar(n)>>
             ELSE Append(Digits(n \div 10), DigitChar(n % 10))

\* i64::to_string (Display): a '-' for negatives, then the digits of the magnitude
i64_to_string(v) == IF v < 0 THEN <<"-">> \o Digits(-v) ELSE Digits(v)

reg_to_string(reg) ==
    CASE reg = Rax -> <<"r", "a", "x">>
      [] reg = Rsp -> <<"r", "s", "p">>

\* the offset written with its own sign: "rsp - 1" for RegistryOffset(Rsp, -1)
arg_to_string_signed(arg) ==
    CASE arg[1] = "Constant" -> i64_to_string(arg[2])
      [] arg[1] = "Registry" -> reg_to_string(arg[2])
      [] arg[1] = "RegistryOffset" ->
            IF arg[3] < 0
            THEN reg_to_string(arg[2]) \o <<" ", "-", " ">> \o i64_to_string(-arg[3])
            ELSE reg_to_string(arg[2]) \o <<" ", "+", " ">> \o i64_to_string(arg[3])

arg_to_string(arg) ==
    CASE arg[1] = "Constant" -> i64_to_string(arg[2])
      [] arg[1] = "Registry" -> reg_to_string(arg[2])
      [] arg[1] = "RegistryOffset" ->
            reg_to_string(arg[2]) \o <<" ", "+", " ">> \o i64_to_string(arg[3])

\* the closure of asm_to_string: one instruction to one line
instruction_to_string(instruction) ==
    CASE instruction[1] = "Inc" -> <<"i", "n", "c", " ">> \o arg_to_string(instruction[2])
      [] instruction[1] = "Dec" -> <<"d", "e", "c", " ">> \o arg_to_string(instruction[2])
      [] instruction[1] = "Mov" ->
            <<"m", "o", "v", " ">> \o arg_to_string(instruction[2])
            \o <<",", " ">> \o arg_to_string(instruction[3])
      [] instruction[1] = "Add" ->
            <<"a", "d", "d", " ">> \o arg_to_string(instruction[2])
            \o <<",", " ">> \o arg_to_string(instruction[3])
      [] instruction[1] = "Sub" ->
            <<"s", "u", "b", " ">> \o arg_to_string(instruction[2])
            \o <<",", " ">> \o arg_to_string(instruction[3])

RECURSIVE join_terminated(_, _)
\* every line followed by the separator, the last one too
join_terminated(lines, sep) ==
    IF lines = << >> THEN << >>
    ELSE lines[1] \o sep \o join_terminated(Tail(lines), sep)

RECURSIVE join(_, _)
\* [String]::join(sep)
join(lines, sep) ==
    IF lines = << >> THEN << >>
    ELSE IF Len(lines) = 1 THEN lines[1]
    ELSE lines[1] \o sep \o join(Tail(lines), sep)

asm_to_string(instructions) ==
    join([i \in 1..Len(instructions) |-> instruction_to_string(instructions[i])],
         <<"\n">>)

----------------------------------------------------------------------------
(* The target machine: src/asm/instruction.rs says what each instruction
   does; one accumulator and stack slots addressed from rsp. *)

\* the (rax, mem) pairs one instruction can leave; a slot read before any
\* write holds whatever the stack held
Exec(instruction, a, m) ==
    CASE instruction[1] = "Inc" -> {[rax |-> a + 1, mem |-> m]}
      [] instruction[1] = "Dec" -> {[rax |-> a - 1, mem |-> m]}
      [] instruction[1] = "Mov" /\ instruction[3][1] = "Constant" ->
            {[rax |-> instruction[3][2], mem |-> m]}
      [] instruction[1] = "Mov" /\ instruction[2][1] = "RegistryOffset" ->
            LET slot == -instruction[2][3]
            IN  {[rax |-> a,
                  mem |-> [s \in (DOMAIN m) \cup {slot} |-> IF s = slot THEN a ELSE m[s]]]}
      [] instruction[1] = "Mov" /\ instruction[3][1] = "RegistryOffset" ->
            LET slot == -instruction[3][3]
            IN  IF slot \in DOMAIN m THEN {[rax |-> m[slot], mem |-> m]}
                ELSE {[rax |-> g, mem |-> m] : g \in Garbage}

----------------------------------------------------------------------------
(* src/parser/token.rs and the variants src/parser/tokenize.rs builds *)

TNumber(v) == <<"Number", v>>

TIdentifier(name) == <<"Identifier", name>>

TIncrement == <<"Increment">>

TDecrement == <<"Decrement">>

LParen == <<"LParen">>

RParen == <<"RParen">>

Assign == <<"Assign">>

LineEnd == <<"LineEnd">>

TLet == <<"Let">>

\* a panic: the call does not return a value
Panic(why) == <<"Panic", why>>

IsPanic(r) == r[1] = "Panic"

----------------------------------------------------------------------------
(* Characters.  The classes are those of char::is_digit(10),
   char::is_alphabetic, char::is_alphanumeric and char::is_whitespace on the
   characters of the model; "sup2" stands for the one character U+00B2,
   which is alphanumeric but neither alphabetic nor a decimal digit. *)

DigitChars == {"0", "1", "2", "3", "4", "5", "6", "7", "8", "9"}

AlphabeticChars == {"a", "e", "l", "t", "x", "y"}

AlphanumericChars == DigitChars \cup AlphabeticChars \cup {"sup2"}

WhitespaceChars == {" ", "\t"}

is_digit(c) == c \in DigitChars

is_alphabetic(c) == c \in AlphabeticChars

is_alphanumeric(c) == c \in AlphanumericChars

is_whitespace(c) == c \in WhitespaceChars

----------------------------------------------------------------------------
(* str::parse::<i64>() on an optional '-' and a non-empty digit run *)

I64MaxDigits ==
    <<"9", "2", "2", "3", "3", "7", "2", "0", "3", "6",
      "8", "5", "4", "7", "7", "5", "8", "0", "7">>

I64MinDigits ==
    <<"9", "2", "2", "3", "3", "7", "2", "0", "3", "6",
      "8", "5", "4", "7", "7", "5", "8", "0", "8">>

RECURSIVE StripZeros(_)
\* a digit run without its leading zeros (at least one digit is kept)
StripZeros(s) == IF Len(s) > 1 /\ s[1] = "0" THEN StripZeros(Tail(s)) ELSE s

DigitOf(c) ==
    CASE c = "0" -> 0 [] c = "1" -> 1 [] c = "2" -> 2 [] c = "3" -> 3 [] c = "4" -> 4
      [] c = "5" -> 5 [] c = "6" -> 6 [] c = "7" -> 7 [] c = "8" -> 8 [] c = "9" -> 9

RECURSIVE DigitsGreater(_, _)
\* a > b for digit runs of the same length
DigitsGreater(a, b) ==
    IF a = << >> THEN FALSE
    ELSE IF a[1] # b[1] THEN DigitOf(a[1]) > DigitOf(b[1])
    ELSE DigitsGreater(Tail(a), Tail(b))

\* the magnitude written by digits exceeds the one written by limit
ExceedsLimit(digits, limit) ==
    LET d == StripZeros(digits)
    IN  \/ Len(d) > Len(limit)
        \/ (Len(d) = Len(limit) /\ DigitsGreater(d, limit))

RECURSIVE FromDigits(_, _)
\* result = result * 10 + digit, from the left
FromDigits(s, acc) ==
    IF s = << >> THEN acc ELSE FromDigits(Tail(s), acc * 10 + DigitOf(s[1]))

\* num.parse::<i64>(): Ok(value), or Err(PosOverflow / NegOverflow) when the
\* value does not fit in 64 bits
parse_i64(num) ==
    IF num[1] = "-"
    THEN IF ExceedsLimit(Tail(num), I64MinDigits) THEN Err("NegOverflow")
         ELSE Ok(-FromDigits(StripZeros(Tail(num)), 0))
    ELSE IF ExceedsLimit(num, I64MaxDigits) THEN Err("PosOverflow")
         ELSE Ok(FromDigits(StripZeros(num), 0))

\* Token::Number(num.parse().unwrap()): unwrap panics on Err
number_token(num) ==
    LET r == parse_i64(num)
    IN  IF IsErr(r) THEN Panic(r[2]) ELSE Ok(TNumber(r[2]))

----------------------------------------------------------------------------
(* src/parser/tokenize.rs.  Each helper takes the text and the position of
   chars.peek() and gives the Result it returns and the position it leaves. *)

RECURSIVE RunEnd(_, _, _)
\* while let Some(&c) = chars.peek() { if c in class { chars.next() } else { break } }
RunEnd(text_, p, class) ==
    IF p <= Len(text_) /\ text_[p] \in class THEN RunEnd(text_, p + 1, class) ELSE p

parse_number(text_, p) ==
    LET e   == RunEnd(text_, p, DigitChars)
        num == SubSeq(text_, p, e - 1)
    IN  IF e <= Len(text_) /\ is_alphabetic(text_[e])
        THEN [res |-> Err(<<"Invalid sequence: Number followed by identifier", num, text_[e]>>),
              pos |-> e]
        ELSE [res |-> number_token(num), pos |-> e]

parse_minus(text_, p) ==
    LET q == p + 1
    IN  IF q <= Len(text_) /\ text_[q] = "-"
        THEN [res |-> Ok(TDecrement), pos |-> q + 1]
        ELSE IF q <= Len(text_) /\ text_[q] \in DigitChars
        THEN LET e == RunEnd(text_, q, DigitChars)
             IN  [res |-> number_token(<<"-">> \o SubSeq(text_, q, e - 1)), pos |-> e]
        ELSE [res |-> Err(<<"Invalid token: Expected '--' or a number">>), pos |-> q]

parse_plus(text_, p) ==
    LET q == p + 1
    IN  IF q <= Len(text_) /\ text_[q] = "+"
        THEN [res |-> Ok(TIncrement), pos |-> q + 1]
        ELSE [res |-> Err(<<"Invalid token: Expected '++'">>), pos |-> q]

\* the loop condition written c.is_alphanumeric() alone, without || c == '_'
parse_identifier_or_keyword_no_underscore(text_, p) ==
    LET e          == RunEnd(text_, p, AlphanumericChars)
        identifier == SubSeq(text_, p, e - 1)
    IN  [res |-> Ok(IF identifier = <<"l", "e", "t">> THEN TLet ELSE TIdentifier(identifier)),
         pos |-> e]

parse_identifier_or_keyword(text_, p) ==
    LET e          == RunEnd(text_, p, AlphanumericChars \cup {"_"})
        identifier == SubSeq(text_, p, e - 1)
    IN  [res |-> Ok(IF identifier = <<"l", "e", "t">> THEN TLet ELSE TIdentifier(identifier)),
         pos |-> e]

\* the arms '(' ')' '=' ';' of tokenize
punctuation_token(c) ==
    CASE c = "(" -> LParen
      [] c = ")" -> RParen
      [] c = "=" -> Assign
      [] c = ";" -> LineEnd

PunctuationChars == {"(", ")", "=", ";"}

----------------------------------------------------------------------------
(* src/parser/parse.rs.  An error message is a tuple of its pieces. *)

\* tokens.get(index)
TokenAt(toks, index) ==
    IF index < Len(toks) THEN <<"Some", toks[index + 1]>> ELSE <<"None">>

\* tokens.get(index) matches Some(Token::<kind>)
TokenIs(toks, index, kind) ==
    index < Len(toks) /\ toks[index + 1][1] = kind

\* the loop of parse_term written as an if: at most one operator is folded
postfix_loop_once(toks, expression, index) ==
    IF index < Len(toks) /\ toks[index + 1][1] = "Increment"
    THEN Ok(<<Increment(expression), index + 1>>)
    ELSE IF index < Len(toks) /\ toks[index + 1][1] = "Decrement"
    THEN Ok(<<Decrement(expression), index + 1>>)
    ELSE Ok(<<expression, index>>)

RECURSIVE postfix_loop(_, _, _)
\* the while loop of parse_term: fold the '++' and '--' that follow onto expression
postfix_loop(toks, expression, index) ==
    IF index < Len(toks) /\ toks[index + 1][1] = "Increment"
    THEN postfix_loop(toks, Increment(expression), index + 1)
    ELSE IF index < Len(toks) /\ toks[index + 1][1] = "Decrement"
    THEN postfix_loop(toks, Decrement(expression), index + 1)
    ELSE Ok(<<expression, index>>)

RECURSIVE parse_expression(_, _)
RECURSIVE parse_let(_, _)
RECURSIVE parse_term(_, _)
RECURSIVE parse_factor(_, _)

parse_expression(toks, index) ==
    IF TokenIs(toks, index, "Let")
    THEN parse_let(toks, index + 1)
    ELSE parse_term(toks, index)

\* parse_let with the '=' test made before the identifier test
parse_let_assign_first(toks, index) ==
    IF TokenIs(toks, index + 1, "Assign")
    THEN IF TokenIs(toks, index, "Identifier")
         THEN LET name == toks[index + 1][2]
                  v    == parse_expression(toks, index + 2)
              IN  IF IsErr(v) THEN v
                  ELSE IF TokenIs(toks, v[2][2], "LineEnd")
                       THEN LET b == parse_expression(toks, v[2][2] + 1)
                            IN  IF IsErr(b) THEN b
                                ELSE Ok(<<Let(name, v[2][1], b[2][1]), b[2][2]>>)
                       ELSE Err(<<"Expected ';' at the end of let binding">>)
         ELSE Err(<<"Expected identifier after 'let'">>)
    ELSE Err(<<"Expected '=' in let binding">>)

parse_let(toks, index) ==
    IF TokenIs(toks, index, "Identifier")
    THEN LET name       == toks[index + 1][2]
             next_index == index + 1
         IN  IF TokenIs(toks, next_index, "Assign")
             THEN LET v == parse_expression(toks, next_index + 1)
                  IN  IF IsErr(v) THEN v
                      ELSE LET value_expr == v[2][1]
                               body_start == v[2][2]
                           IN  IF TokenIs(toks, body_start, "LineEnd")
                               THEN LET b == parse_expression(toks, body_start + 1)
                                    IN  IF IsErr(b) THEN b
                                        ELSE Ok(<<Let(name, value_expr, b[2][1]), b[2][2]>>)
                               ELSE Err(<<"Expected ';' at the end of let binding">>)
             ELSE Err(<<"Expected '=' in let binding">>)
    ELSE Err(<<"Expected identifier after 'let'">>)

parse_term(toks, index) ==
    LET f == parse_factor(toks, index)
    IN  IF IsErr(f) THEN f ELSE postfix_loop(toks, f[2][1], f[2][2])

\* parse_factor whose Number arm returns index instead of index + 1
parse_factor_number_stays(toks, index) ==
    LET t == TokenAt(toks, index)
    IN  CASE t[1] = "None" -> Err(<<"Unexpected end of input">>)
          [] t[1] = "Some" /\ t[2][1] = "Number" -> Ok(<<Number(t[2][2]), index>>)
          [] t[1] = "Some" /\ t[2][1] = "Identifier" -> Ok(<<Identifier(t[2][2]), index + 1>>)
          [] t[1] = "Some" /\ t[2][1] = "LParen" ->
                LET r == parse_expression(toks, index + 1)
                IN  IF IsErr(r) THEN r
                    ELSE IF TokenIs(toks, r[2][2], "RParen")
                         THEN Ok(<<r[2][1], r[2][2] + 1>>)
                         ELSE Err(<<"Expected closing parenthesis">>)
          [] OTHER -> Err(<<"Unexpected token: ", t[2]>>)

\* parse_factor that accepts a '(' without its ')'
parse_factor_accepts_open(toks, index) ==
    LET t == TokenAt(toks, index)
    IN  CASE t[1] = "None" -> Err(<<"Unexpected end of input">>)
          [] t[1] = "Some" /\ t[2][1] = "Number" -> Ok(<<Number(t[2][2]), index + 1>>)
          [] t[1] = "Some" /\ t[2][1] = "Identifier" -> Ok(<<Identifier(t[2][2]), index + 1>>)
          [] t[1] = "Some" /\ t[2][1] = "LParen" ->
                LET r == parse_expression(toks, index + 1)
                IN  IF IsErr(r) THEN r
                    ELSE IF TokenIs(toks, r[2][2], "RParen")
                         THEN Ok(<<r[2][1], r[2][2] + 1>>)
                         ELSE r
          [] OTHER -> Err(<<"Unexpected token: ", t[2]>>)

\* parse_factor returning next_index instead of next_index + 1 after ')'
parse_factor_keeps_rparen(toks, index) ==
    LET t == TokenAt(toks, index)
    IN  CASE t[1] = "None" -> Err(<<"Unexpected end of input">>)
          [] t[1] = "Some" /\ t[2][1] = "Number" -> Ok(<<Number(t[2][2]), index + 1>>)
          [] t[1] = "Some" /\ t[2][1] = "Identifier" -> Ok(<<Identifier(t[2][2]), index + 1>>)
          [] t[1] = "Some" /\ t[2][1] = "LParen" ->
                LET r == parse_expression(toks, index + 1)
                IN  IF IsErr(r) THEN r
                    ELSE IF TokenIs(toks, r[2][2], "RParen")
                         THEN Ok(<<r[2][1], r[2][2]>>)
                         ELSE Err(<<"Expected closing parenthesis">>)
          [] OTHER -> Err(<<"Unexpected token: ", t[2]>>)

parse_factor(toks, index) ==
    LET t == TokenAt(toks, index)
    IN  CASE t[1] = "None" -> Err(<<"Unexpected end of input">>)
          [] t[1] = "Some" /\ t[2][1] = "Number" -> Ok(<<Number(t[2][2]), index + 1>>)
          [] t[1] = "Some" /\ t[2][1] = "Identifier" -> Ok(<<Identifier(t[2][2]), index + 1>>)
          [] t[1] = "Some" /\ t[2][1] = "LParen" ->
                LET r == parse_expression(toks, index + 1)
                IN  IF IsErr(r) THEN r
                    ELSE IF TokenIs(toks, r[2][2], "RParen")
                         THEN Ok(<<r[2][1], r[2][2] + 1>>)
                         ELSE Err(<<"Expected closing parenthesis">>)
          [] OTHER -> Err(<<"Unexpected token: ", t[2]>>)

\* parse that rejects tokens left after the expression
parse_whole_input(toks) ==
    LET r == parse_expression(toks, 0)
    IN  IF IsErr(r) THEN r
        ELSE IF r[2][2] < Len(toks) THEN Err(<<"Unexpected trailing tokens">>)
        ELSE Ok(r[2][1])

\* parse(tokens): the expression parse_expression finds at index 0; the index
\* it stops at is dropped
parse(toks) ==
    LET r == parse_expression(toks, 0)
    IN  IF IsErr(r) THEN r ELSE Ok(r[2][1])

----------------------------------------------------------------------------
(* Inputs *)

\* the expressions with one node
Leaves == {Number(v) : v \in Values} \cup {Identifier(nm) : nm \in Names}

RECURSIVE ExprTable(_)
\* <<S1, ..., Sn>>, Sk the expressions over Names and Values with exactly k nodes
ExprTable(n) ==
    IF n = 1 THEN <<Leaves>>
    ELSE LET t == ExprTable(n - 1)
         IN  Append(t,
                {Increment(e) : e \in t[n - 1]}
                \cup {Decrement(e) : e \in t[n - 1]}
                \cup UNION {{Let(nm, v, b) : nm \in Names, v \in t[i], b \in t[n - 1 - i]} :
                             i \in 1..(n - 2)})

BoundedExprs == LET t == ExprTable(MaxNodes) IN UNION {t[n] : n \in 1..MaxNodes}

\* the programs of src/tests.rs (executes_correctly), as parsed
TestExprs ==
    { Number(420), Number(0), Number(-420),
      Decrement(Number(420)), Increment(Number(420)),
      Decrement(Increment(Number(420))), Increment(Decrement(Number(420))),
      Increment(Decrement(Increment(Number(420)))),
      Let("x", Number(420), Identifier("x")),
      Let("x", Number(420), Increment(Identifier("x"))),
      Let("x", Number(420), Let("y", Increment(Identifier("x")), Identifier("y"))),
      Let("x", Number(420), Let("x", Number(69), Identifier("x"))) }

\* let x = 1; let x = 2; let y = 3; x
RebindThenBind ==
    Let("x", Number(1), Let("x", Number(2), Let("y", Number(3), Identifier("x"))))

InputExprs ==
    BoundedExprs \cup TestExprs \cup {RebindThenBind}
    \cup {Number(v) : v \in SampleValues}

----------------------------------------------------------------------------
(* The compilation run: compile, render, execute *)

NoMem == [s \in {} |-> 0]

Init ==
    /\ expr \in InputExprs
    /\ pc = "start"
    /\ env = EnvNew
    /\ result = << >>
    /\ text = << >>
    /\ ip = 1
    /\ rax = 0
    /\ mem = NoMem
    /\ calls = << >>
    /\ slots = << >>
    /\ found = << >>
    /\ effects = << >>
    /\ outcome = << >>
    /\ input = << >>
    /\ pos = 1
    /\ tokens = << >>
    /\ lexed = << >>
    /\ parsed = << >>

\* main.rs: let assembly = compile(program)
Compile ==
    /\ pc = "start"
    /\ LET r == compile(expr)
       IN  /\ result' = r.res
           /\ env' = r.env
           /\ pc' = IF IsOk(r.res) THEN "compiled" ELSE "failed"
    /\ UNCHANGED <<expr, text, ip, rax, mem, calls, slots, found, front, driver>>

\* main.rs: asm_to_string(assembly.unwrap())
Render ==
    /\ pc = "compiled"
    /\ text' = asm_to_string(result[2])
    /\ pc' = "rendered"
    /\ UNCHANGED <<expr, env, result, ip, rax, mem, calls, slots, found, front, driver>>

\* the executable runs one instruction of the list, in list order
Step ==
    /\ pc \in {"rendered", "running"}
    /\ ip <= Len(result[2])
    /\ \E o \in Exec(result[2][ip], rax, mem) :
          /\ rax' = o.rax
          /\ mem' = o.mem
    /\ ip' = ip + 1
    /\ pc' = IF ip = Len(result[2]) THEN "halted" ELSE "running"
    /\ UNCHANGED <<expr, env, result, text, calls, slots, found, front, driver>>

Next == Compile \/ Render \/ Step

Spec == Init /\ [][Next]_vars

----------------------------------------------------------------------------
(* The environment on its own: add and get called on one Env *)

InitEnv ==
    /\ expr = << >>
    /\ pc = "env"
    /\ env = EnvNew
    /\ result = << >>
    /\ text = << >>
    /\ ip = 1
    /\ rax = 0
    /\ mem = NoMem
    /\ calls = << >>
    /\ slots = << >>
    /\ found = << >>
    /\ effects = << >>
    /\ outcome = << >>
    /\ input = << >>
    /\ pos = 1
    /\ tokens = << >>
    /\ lexed = << >>
    /\ parsed = << >>

\* let slot = add(name, &mut env)
AddName(name) ==
    /\ Len(calls) < MaxAdds
    /\ LET a == add(name, env)
       IN  /\ env' = a.env
           /\ slots' = Append(slots, a.slot)
    /\ calls' = Append(calls, name)
    /\ found' = << >>
    /\ UNCHANGED <<expr, pc, result, text, ip, rax, mem, front, driver>>

\* env.get(name); found holds the last lookup made since the last add
Lookup(name) ==
    /\ found' = <<name, EnvGet(env, name)>>
    /\ UNCHANGED <<expr, pc, env, result, text, ip, rax, mem, calls, slots, front, driver>>

NextEnv == \E name \in EnvNames : AddName(name) \/ Lookup(name)

SpecEnv == InitEnv /\ [][NextEnv]_vars

----------------------------------------------------------------------------
(* Inputs of the front end *)

\* longest enumerated source text
MaxSourceLen == 3

\* longest enumerated token slice
MaxTokens == 4

\* characters of the enumerated source texts
SourceChars == {"1", "-", "+", "a", "_", " ", "(", ")", "!", "sup2"}

\* the programs of src/tests.rs (executes_correctly)
TestSources ==
    {
      <<"4", "2", "0">>,
      <<"0">>,
      <<"-", "4", "2", "0">>,
      <<"4", "2", "0", "-", "-">>,
      <<"4", "2", "0", " ", " ", " ", "-", "-">>,
      <<"4", "2", "0", "+", "+">>,
      <<"4", "2", "0", " ", " ", " ", "+", "+">>,
      <<"4", "2", "0", "+", "+", "-", "-">>,
      <<"4", "2", "0", "-", "-", "+", "+">>,
      <<"4", "2", "0", "+", "+", "-", "-", "+", "+">>,
      <<"l", "e", "t", " ", "x", " ", "=", " ", "4", "2", "0", ";", " ", "x">>,
      <<"l", "e", "t", " ", "x", " ", "=", " ", "4", "2", "0", ";", " ", "x", "+", "+">>,
      <<"l", "e", "t", " ", "x", " ", "=", " ", "4", "2", "0", ";", " ", "l", "e", "t", " ", "y", " ", "=", " ", "x", "+", "+", ";", " ", "y">>,
      <<"l", "e", "t", " ", "x", " ", "=", " ", "4", "2", "0", ";", " ", "l", "e", "t", " ", "x", " ", "=", " ", "6", "9", ";", " ", "x">>
    }

\* the inputs of the tests of src/parser/tokenize.rs
TokenizeTestSources ==
    {
      <<"1", "2", "3">>,
      <<"+", "+">>,
      <<"-", "-">>,
      <<"(", ")">>,
      <<"=">>,
      <<";">>,
      <<" ", " ", "1", "2", "3", " ", " ">>,
      <<"l", "e", "t">>,
      <<"!">>,
      <<"+">>,
      <<"-">>,
      <<"1", "2", "3", "a">>,
      <<"-", "+">>,
      <<"+", "-">>,
      <<"-", "1", "2", "3">>
    }

\* further texts: operators next to numbers, words around "let", digit runs
\* with leading zeros and digit runs outside the 64-bit range
EdgeSources ==
    {
      <<"-", "1", "2", "3", "a">>,
      <<"-", "1", "a">>,
      <<"5", "-", "-", "3">>,
      <<"5", "-", "3">>,
      <<"l", "e", "t", "x">>,
      <<"l", "e", "t", "_">>,
      <<"l", "e", "t", "1">>,
      <<"_", "a">>,
      <<"x", "sup2">>,
      <<"a", "_", "1", " ", "l", "e", "t">>,
      <<"(", "5", ")">>,
      <<"5", "+", "+", "-", "-">>,
      <<"1", "\t", "2">>,
      <<"0", "0", "0", "0", "0", "0", "0", "0", "0", "0", "0", "0", "0", "0", "0", "0", "0", "0", "0", "1">>,
      <<"-", "0", "0", "0">>,
      <<"9", "2", "2", "3", "3", "7", "2", "0", "3", "6", "8", "5", "4", "7", "7", "5", "8", "0", "8">>,
      <<"-", "9", "2", "2", "3", "3", "7", "2", "0", "3", "6", "8", "5", "4", "7", "7", "5", "8", "0", "9">>,
      <<"9", "9", "9", "9", "9", "9", "9", "9", "9", "9", "9", "9", "9", "9", "9", "9", "9", "9", "9", "9">>,
      <<"1", " ", "9", "9", "9", "9", "9", "9", "9", "9", "9", "9", "9", "9", "9", "9", "9", "9", "9", "9", "9", "9">>,
      <<"x", "-", "9", "9", "9", "9", "9", "9", "9", "9", "9", "9", "9", "9", "9", "9", "9", "9", "9", "9", "9", "9">>
    }

Sources ==
    UNION {[1..k -> SourceChars] : k \in 0..MaxSourceLen}
    \cup TestSources \cup TokenizeTestSources \cup EdgeSources

\* tokens of the enumerated token slices
TokenKinds ==
    {TNumber(2), TIdentifier("x"), TIncrement, TDecrement,
     LParen, RParen, Assign, LineEnd, TLet}

RECURSIVE TokensOf(_)
\* a token slice that spells the expression e
TokensOf(e) ==
    CASE e[1] = "Number" -> <<TNumber(e[2])>>
      [] e[1] = "Identifier" -> <<TIdentifier(e[2])>>
      [] e[1] \in {"Increment", "Decrement"} ->
            (IF e[2][1] = "Let" THEN <<LParen>> \o TokensOf(e[2]) \o <<RParen>>
             ELSE TokensOf(e[2]))
            \o <<IF e[1] = "Increment" THEN TIncrement ELSE TDecrement>>
      [] e[1] = "Let" ->
            <<TLet, TIdentifier(e[2]), Assign>> \o TokensOf(e[3])
            \o <<LineEnd>> \o TokensOf(e[4])

\* the token slices of the tests of src/parser/parse.rs
ParseTestTokens ==
    { <<TNumber(42)>>, <<LParen, TNumber(42), RParen>>, <<TIncrement>>, << >>,
      <<TIdentifier("x")>>, <<TNumber(42), TIncrement>>, <<TNumber(42), TDecrement>>,
      <<TLet, TIdentifier("x"), Assign, TNumber(5), LineEnd, TIdentifier("x")>>,
      <<LParen, TNumber(5)>>, <<TNumber(5), TNumber(6)>>, <<TNumber(5), RParen>>,
      <<TNumber(5), TIncrement, TDecrement>> }

TokenInputs ==
    UNION {[1..k -> TokenKinds] : k \in 0..MaxTokens}
    \cup {TokensOf(e) : e \in BoundedExprs}
    \cup {TokensOf(e) \o <<t>> : e \in BoundedExprs, t \in TokenKinds}
    \cup ParseTestTokens

----------------------------------------------------------------------------
(* The pipeline of main.rs: read_program (tokenize, parse), compile,
   asm_to_string.  tokenize runs one iteration of its loop per step. *)

InitPipeline ==
    /\ input \in Sources
    /\ pc = "scan"
    /\ pos = 1
    /\ tokens = << >>
    /\ lexed = << >>
    /\ parsed = << >>
    /\ expr = << >>
    /\ env = EnvNew
    /\ result = << >>
    /\ text = << >>
    /\ ip = 1
    /\ rax = 0
    /\ mem = NoMem
    /\ calls = << >>
    /\ slots = << >>
    /\ found = << >>
    /\ effects = << >>
    /\ outcome = << >>

back == <<expr, env, result, text, ip, rax, mem, calls, slots, found, driver>>

\* chars.peek() is Some(c)
Peek(c) == pc = "scan" /\ pos <= Len(input) /\ input[pos] = c

\* tokens.push(helper(&mut chars)?): push the token, or return the failure
PushOrReturn(r) ==
    /\ pos' = r.pos
    /\ IF IsOk(r.res)
       THEN /\ tokens' = Append(tokens, r.res[2])
            /\ UNCHANGED <<pc, lexed>>
       ELSE /\ lexed' = r.res
            /\ pc' = IF IsPanic(r.res) THEN "lex_panic" ELSE "lex_error"
            /\ UNCHANGED tokens
    /\ UNCHANGED <<input, parsed, back>>

ScanNumber ==
    /\ \E c \in DigitChars : Peek(c)
    /\ PushOrReturn(parse_number(input, pos))

ScanMinus ==
    /\ Peek("-")
    /\ PushOrReturn(parse_minus(input, pos))

ScanPlus ==
    /\ Peek("+")
    /\ PushOrReturn(parse_plus(input, pos))

ScanPunctuation ==
    /\ \E c \in PunctuationChars :
          /\ Peek(c)
          /\ tokens' = Append(tokens, punctuation_token(c))
    /\ pos' = pos + 1
    /\ UNCHANGED <<pc, input, lexed, parsed, back>>

SkipWhitespace ==
    /\ \E c \in WhitespaceChars : Peek(c)
    /\ pos' = pos + 1
    /\ UNCHANGED <<pc, input, tokens, lexed, parsed, back>>

ScanWord ==
    /\ \E c \in AlphabeticChars : Peek(c)
    /\ PushOrReturn(parse_identifier_or_keyword(input, pos))

\* the arm _ => return Err(format!("Invalid character: {}", c))
RejectChar ==
    /\ pc = "scan"
    /\ pos <= Len(input)
    /\ input[pos] \notin DigitChars \cup {"-", "+"} \cup PunctuationChars
                      \cup WhitespaceChars \cup AlphabeticChars
    /\ lexed' = Err(<<"Invalid character: ", input[pos]>>)
    /\ pc' = "lex_error"
    /\ UNCHANGED <<input, pos, tokens, parsed, back>>

\* chars.peek() is None: Ok(tokens)
FinishTokenize ==
    /\ pc = "scan"
    /\ pos > Len(input)
    /\ lexed' = Ok(tokens)
    /\ pc' = "tokenized"
    /\ UNCHANGED <<input, pos, tokens, parsed, back>>

\* let ast = parse(&program)?
ParseTokens ==
    /\ pc = "tokenized"
    /\ LET r == parse(tokens)
       IN  /\ parsed' = r
           /\ IF IsOk(r)
              THEN expr' = r[2] /\ pc' = "start"
              ELSE expr' = expr /\ pc' = "parse_error"
    /\ UNCHANGED <<input, pos, tokens, lexed, env, result, text, ip, rax, mem,
                   calls, slots, found, driver>>

Tokenize ==
    \/ ScanNumber \/ ScanMinus \/ ScanPlus \/ ScanPunctuation
    \/ SkipWhitespace \/ ScanWord \/ RejectChar \/ FinishTokenize

NextPipeline == Tokenize \/ ParseTokens \/ Compile \/ Render

SpecPipeline == InitPipeline /\ [][NextPipeline]_vars

----------------------------------------------------------------------------
(* parse on its own, on a token slice *)

InitParse ==
    /\ tokens \in TokenInputs
    /\ pc = "tokenized"
    /\ input = << >>
    /\ pos = 1
    /\ lexed = Ok(tokens)
    /\ parsed = << >>
    /\ expr = << >>
    /\ env = EnvNew
    /\ result = << >>
    /\ text = << >>
    /\ ip = 1
    /\ rax = 0
    /\ mem = NoMem
    /\ calls = << >>
    /\ slots = << >>
    /\ found = << >>
    /\ effects = << >>
    /\ outcome = << >>

NextParse == ParseTokens

SpecParse == InitParse /\ [][NextParse]_vars

----------------------------------------------------------------------------
(* src/main.rs: the driver.  The file system, nasm and clang are outside
   the program: each call of them can succeed or fail. *)

\* Result::unwrap with an Err that comes back as an empty instruction list
unwrap_or_default(r) == IF IsOk(r) THEN r ELSE Ok(<< >>)

\* Result::unwrap: the Ok value, or a panic
unwrap(r) == IF IsOk(r) THEN r ELSE Panic(<<"called Result::unwrap() on an Err value">>)

Prelude == <<"s", "e", "c", "t", "i", "o", "n", " ", ".", "t", "e", "x", "t", "\n", "g", "l", "o", "b", "a", "l", " ", "_", "s", "t", "a", "r", "t", "\n", "_", "s", "t", "a", "r", "t", ":", "\n">>

\* format!("{}\n{}", prelude, asm) and format!("{}\n{}", asm, "ret\n")
compiled_asm(instructions) ==
    Prelude \o <<"\n">> \o asm_to_string(instructions) \o <<"\n">> \o <<"r", "e", "t", "\n">>

\* std::env::args().len()
ArgCounts == {1, 2, 3}

\* File::open and reader.lines().next(): no file, no line, or the first line
InputFiles == {"missing", "empty", "line"}

\* std::env::consts::OS
OperatingSystems == {"windows", "linux", "macos", "freebsd"}

\* Command::status(): the process cannot be started, or its exit status
CommandStatuses == {"spawn_failed", "exit_success", "exit_failure"}

\* main ends with the value o (returned from main, or the panic that ended it)
Exit(o) == outcome' = o /\ pc' = "exited"

InitDriver ==
    /\ input \in Sources
    /\ pc = "main"
    /\ pos = 1
    /\ tokens = << >>
    /\ lexed = << >>
    /\ parsed = << >>
    /\ expr = << >>
    /\ env = EnvNew
    /\ result = << >>
    /\ text = << >>
    /\ ip = 1
    /\ rax = 0
    /\ mem = NoMem
    /\ calls = << >>
    /\ slots = << >>
    /\ found = << >>
    /\ effects = << >>
    /\ outcome = << >>

\* let args = parse_args()?
ParseArgs ==
    /\ pc = "main"
    /\ \E n \in ArgCounts :
          IF n # 2 THEN Exit(Err(<<"Invalid number of arguments">>))
          ELSE pc' = "open" /\ outcome' = outcome
    /\ UNCHANGED <<front, expr, env, result, text, ip, rax, mem, calls, slots, found,
                   effects>>

\* read_program up to the line that is handed to tokenize
OpenInput ==
    /\ pc = "open"
    /\ \E f \in InputFiles :
          CASE f = "missing" -> Exit(Panic(<<"Failed to open input file">>))
            [] f = "empty" -> Exit(Err(<<"Error: empty input file">>))
            [] f = "line" -> pc' = "scan" /\ outcome' = outcome
    /\ UNCHANGED <<front, expr, env, result, text, ip, rax, mem, calls, slots, found,
                   effects>>

\* tokenize(..)? and parse(..)? in read_program, read_program(..)? in main
ReturnError ==
    /\ pc \in {"lex_error", "parse_error"}
    /\ Exit(IF pc = "lex_error" THEN lexed ELSE parsed)
    /\ UNCHANGED <<front, expr, env, result, text, ip, rax, mem, calls, slots, found,
                   effects>>

\* a panic inside tokenize ends main
Unwind ==
    /\ pc = "lex_panic"
    /\ Exit(lexed)
    /\ UNCHANGED <<front, expr, env, result, text, ip, rax, mem, calls, slots, found,
                   effects>>

\* the three create_output_paths(..)? calls
CreateOutputPaths ==
    /\ pc \in {"compiled", "failed"}
    /\ effects' = Append(effects, <<"create_dir_all">>)
    /\ \E ok \in BOOLEAN :
          IF ok THEN pc' = "paths" /\ outcome' = outcome
          ELSE Exit(Err(<<"io::Error">>))
    /\ UNCHANGED <<front, expr, env, result, text, ip, rax, mem, calls, slots, found>>

\* let asm = format!(.., asm_to_string(assembly.unwrap())) and compiled_asm
FormatAssembly ==
    /\ pc = "paths"
    /\ LET assembly == unwrap(result)
       IN  IF IsPanic(assembly)
           THEN Exit(assembly) /\ text' = text
           ELSE /\ text' = compiled_asm(assembly[2])
                /\ pc' = "formatted"
                /\ outcome' = outcome
    /\ UNCHANGED <<front, expr, env, result, ip, rax, mem, calls, slots, found, effects>>

\* write_assembly(&asm_output_path, &compiled_asm)?
WriteAssembly ==
    /\ pc = "formatted"
    /\ \E ok \in BOOLEAN :
          /\ effects' = Append(effects, <<"write_assembly", IF ok THEN "ok" ELSE "failed">>)
          /\ IF ok THEN pc' = "written" /\ outcome' = outcome
             ELSE Exit(Panic(<<"Failed to write assembly file">>))
    /\ UNCHANGED <<front, expr, env, result, text, ip, rax, mem, calls, slots, found>>

\* assemble(&asm_output_path, &obj_output_path)?
Assemble ==
    /\ pc = "written"
    /\ \E os \in OperatingSystems, status \in CommandStatuses :
          IF os \notin {"windows", "linux", "macos"}
          THEN Exit(Err(<<"Unsupported operating system">>)) /\ effects' = effects
          ELSE /\ effects' = Append(effects, <<"nasm", status>>)
               /\ IF status = "spawn_failed"
                  THEN Exit(Panic(<<"Failed to assemble .asm to .obj">>))
                  ELSE pc' = "assembled" /\ outcome' = outcome
    /\ UNCHANGED <<front, expr, env, result, text, ip, rax, mem, calls, slots, found>>

\* link(&obj_output_path, &exe_output_path)? and Ok(())
Link ==
    /\ pc = "assembled"
    /\ \E status \in CommandStatuses :
          /\ effects' = Append(effects, <<"clang", status>>)
          /\ IF status = "spawn_failed"
             THEN Exit(Panic(<<"Failed to link .obj to .exe">>))
             ELSE Exit(Ok(Unit))
    /\ UNCHANGED <<front, expr, env, result, text, ip, rax, mem, calls, slots, found>>

NextDriver ==
    \/ ParseArgs \/ OpenInput \/ Tokenize \/ ParseTokens \/ ReturnError \/ Unwind
    \/ Compile \/ CreateOutputPaths \/ FormatAssembly \/ WriteAssembly
    \/ Assemble \/ Link

SpecDriver == InitDriver /\ [][NextDriver]_vars

----------------------------------------------------------------------------
(* asm_to_string on its own, on any instruction list *)

\* longest enumerated instruction list
MaxInstructions == 3

\* operands rendered in one-instruction lists
RenderArgs ==
    {Constant(v) : v \in SampleValues}
    \cup {Registry(Rax), Registry(Rsp)}
    \cup {RegistryOffset(r, k) : r \in {Rax, Rsp}, k \in SampleValues}

\* every instruction over RenderArgs with a register destination, and every
\* one-operand instruction
RenderInstructions ==
    {Inc(a) : a \in RenderArgs} \cup {Dec(a) : a \in RenderArgs}
    \cup {Mov(Registry(Rax), a) : a \in RenderArgs}
    \cup {Mov(a, Registry(Rax)) : a \in RenderArgs}
    \cup {Add(Registry(Rax), a) : a \in RenderArgs}
    \cup {Sub(Registry(Rsp), a) : a \in RenderArgs}

\* instructions of the enumerated lists: one of each kind and the forms of
\* the test it_converts_instructions_to_string
ListInstructions ==
    {Inc(Registry(Rax)), Dec(RegistryOffset(Rsp, -1)),
     Mov(Registry(Rax), Constant(42)), Mov(RegistryOffset(Rsp, -2), Registry(Rax)),
     Add(Registry(Rax), Constant(-10)), Sub(Registry(Rax), Constant(0)),
     Sub(Registry(Rsp), Constant(8))}

InstructionLists ==
    UNION {[1..k -> ListInstructions] : k \in 0..MaxInstructions}
    \cup {<<i>> : i \in RenderInstructions}

\* the runs of the renderer: any instruction list (expr is empty), or the
\* list compile returns for an expression
RenderInputs ==
    {[expr |-> << >>, result |-> Ok(l)] : l \in InstructionLists}
    \cup {[expr |-> e, result |-> compile(e).res] :
             e \in {x \in InputExprs : IsOk(compile(x).res)}}

InitRender ==
    /\ \E r \in RenderInputs : expr = r.expr /\ result = r.result
    /\ pc = "compiled"
    /\ env = EnvNew
    /\ text = << >>
    /\ ip = 1
    /\ rax = 0
    /\ mem = NoMem
    /\ calls = << >>
    /\ slots = << >>
    /\ found = << >>
    /\ effects = << >>
    /\ outcome = << >>
    /\ input = << >>
    /\ pos = 1
    /\ tokens = << >>
    /\ lexed = << >>
    /\ parsed = << >>

NextRender == Render

SpecRender == InitRender /\ [][NextRender]_vars

----------------------------------------------------------------------------
(* Vocabulary of the properties *)

RECURSIVE Closed(_, _)
\* every Identifier occurrence lies in the body of an enclosing Let of its
\* name, or names a member of bound
Closed(e, bound) ==
    CASE e[1] = "Number" -> TRUE
      [] e[1] \in {"Increment", "Decrement"} -> Closed(e[2], bound)
      [] e[1] = "Identifier" -> e[2] \in bound
      [] e[1] = "Let" -> Closed(e[3], bound) /\ Closed(e[4], bound \cup {e[2]})

RECURSIVE FreeIn(_, _)
\* n has an occurrence in e that no Let of e binds
FreeIn(n, e) ==
    CASE e[1] = "Number" -> FALSE
      [] e[1] \in {"Increment", "Decrement"} -> FreeIn(n, e[2])
      [] e[1] = "Identifier" -> e[2] = n
      [] e[1] = "Let" -> FreeIn(n, e[3]) \/ (e[2] # n /\ FreeIn(n, e[4]))

RECURSIVE Eval(_, _)
\* the reference evaluation of a closed expression under the bindings rho
Eval(e, rho) ==
    CASE e[1] = "Number" -> e[2]
      [] e[1] = "Increment" -> Eval(e[2], rho) + 1
      [] e[1] = "Decrement" -> Eval(e[2], rho) - 1
      [] e[1] = "Identifier" -> rho[e[2]]
      [] e[1] = "Let" ->
            LET v == Eval(e[3], rho)
            IN  Eval(e[4], [n \in (DOMAIN rho) \cup {e[2]} |->
                                IF n = e[2] THEN v ELSE rho[n]])

RECURSIVE PostfixOf(_, _)
\* e is Identifier(n) under any number of Increment/Decrement
PostfixOf(e, n) ==
    CASE e[1] = "Identifier" -> e[2] = n
      [] e[1] \in {"Increment", "Decrement"} -> PostfixOf(e[2], n)
      [] OTHER -> FALSE

\* the load Mov(rax, [rsp - n]) and the store Mov([rsp - n], rax)
Load(n) == Mov(Registry(Rax), RegistryOffset(Rsp, -n))

Store(n) == Mov(RegistryOffset(Rsp, -n), Registry(Rax))

IsLoad(i) == i[1] = "Mov" /\ i[3][1] = "RegistryOffset"

\* the error value the specification names for an unbound identifier
UnboundIdentifier(n) == <<"UnboundIdentifier", n>>

Compiled == pc \in {"compiled", "failed", "rendered", "running", "halted"}

Rendered == pc \in {"rendered", "running", "halted"}

\* the calls of compile_expression made by the compilation of expr
RunCalls == Calls(expr, EnvNew)

DigitValue(c) ==
    CASE c = "0" -> 0 [] c = "1" -> 1 [] c = "2" -> 2 [] c = "3" -> 3 [] c = "4" -> 4
      [] c = "5" -> 5 [] c = "6" -> 6 [] c = "7" -> 7 [] c = "8" -> 8 [] c = "9" -> 9
      [] OTHER -> -1

RECURSIVE NumeralValue(_)
\* the number a non-empty digit string denotes
NumeralValue(s) ==
    IF Len(s) = 1 THEN DigitValue(s[1])
    ELSE 10 * NumeralValue(SubSeq(s, 1, Len(s) - 1)) + DigitValue(s[Len(s)])

\* s is digits only, with no leading zero unless it is "0"
IsNumeral(s) ==
    /\ Len(s) >= 1
    /\ \A i \in 1..Len(s) : DigitValue(s[i]) >= 0
    /\ (Len(s) > 1 => s[1] # "0")

\* s is the decimal form of v
IsDecimalOf(s, v) ==
    IF v < 0
    THEN /\ Len(s) >= 2
         /\ s[1] = "-"
         /\ IsNumeral(Tail(s))
         /\ NumeralValue(Tail(s)) = -v
    ELSE IsNumeral(s) /\ NumeralValue(s) = v

MovRaxPrefix == <<"m", "o", "v", " ", "r", "a", "x", ",", " ">>

----------------------------------------------------------------------------
(* Properties *)

\* C1: a closed expression compiles from the empty environment, and running
\* the emitted instructions leaves in rax the value of the expression under
\* the reference evaluation.
C1_ExecutesToReferenceValue ==
    (Compiled /\ Closed(expr, {})) =>
        /\ pc # "failed"
        /\ (pc = "halted" => rax = Eval(expr, [n \in {} |-> 0]))

\* C2: every add returns a slot strictly greater than every slot returned
\* before on the same environment, the first one being 1, rebindings included.
C2_SlotsStrictlyIncreasing ==
    /\ (Len(slots) >= 1 => slots[1] = 1)
    /\ \A i, j \in 1..Len(slots) : i < j => slots[i] < slots[j]

\* C3: binding x, then y, then x again on an empty environment returns the
\* slots 1, 2, 3, and a following lookup of x gives slot 3.
C3_RebindGetsSlotThree ==
    calls = <<"x", "y", "x">> =>
        /\ slots = <<1, 2, 3>>
        /\ (found # << >> /\ found[1] = "x" => found[2] = <<"Some", 3>>)

C3_Witness ==
    /\ calls = <<"x", "y", "x">>
    /\ found = <<"x", <<"Some", 3>>>>

\* C4: in Let(name, value, body) the occurrences of name in value are
\* resolved against the environment the Let was entered with: the Let fails
\* when name was unbound there, and loads the old slot when it was bound.
C4_InitializerSeesEntryEnv ==
    Compiled =>
        \A c \in RunCalls :
            (c.expr[1] = "Let" /\ FreeIn(c.expr[2], c.expr[3])) =>
                IF c.expr[2] \notin DOMAIN c.env
                THEN IsErr(c.out.res)
                ELSE (PostfixOf(c.expr[3], c.expr[2]) /\ IsOk(c.out.res)) =>
                        c.out.res[2][1] = Load(c.env[c.expr[2]])

C6_UnboundIsCompileError ==
    (Compiled /\ ~Closed(expr, {})) => (pc = "failed" /\ IsErr(result))

\* C7: in a compiled instruction list every load of a slot comes after a
\* store to that slot.
C7_NoLoadBeforeStore ==
    (Compiled /\ IsOk(result)) =>
        \A i \in 1..Len(result[2]) :
            IsLoad(result[2][i]) =>
                \E j \in 1..(i - 1) : result[2][j] = Store(-result[2][i][3][3])

\* C8: a Let that compiles returns the instructions of value, one spill to
\* slot (environment size at entry plus 1), then the instructions of body,
\* and body is compiled with name mapped to that slot.
C8_LetLayout ==
    Compiled =>
        \A c \in RunCalls :
            (c.expr[1] = "Let" /\ IsOk(c.out.res)) =>
                LET slot == EnvLen(c.env) + 1
                    rv   == compile_expression(c.expr[3], EnvInsert(c.env, c.expr[2], slot))
                    rb   == compile_expression(c.expr[4], rv.env)
                IN  /\ c.out.res = Ok(rv.res[2] \o <<Store(slot)>> \o rb.res[2])
                    /\ EnvGet(rv.env, c.expr[2]) = <<"Some", slot>>

\* C9: Increment(e) compiles to the instructions of e followed by exactly
\* one Inc(rax), Decrement(e) to those of e followed by exactly one Dec(rax).
C9_PostfixAppendsOne ==
    Compiled =>
        /\ \A c \in RunCalls :
              c.expr[1] \in {"Increment", "Decrement"} =>
                  LET r == compile_expression(c.expr[2], c.env)
                  IN  IsOk(r.res) =>
                        c.out.res = Ok(r.res[2] \o
                                       <<IF c.expr[1] = "Increment"
                                         THEN Inc(Registry(Rax)) ELSE Dec(Registry(Rax))>>)
        /\ (expr[1] \in {"Increment", "Decrement"} /\ IsOk(compile(expr[2]).res)) =>
              result = Ok(compile(expr[2]).res[2] \o
                          <<IF expr[1] = "Increment"
                            THEN Inc(Registry(Rax)) ELSE Dec(Registry(Rax))>>)

C9_Witness ==
    /\ pc = "compiled"
    /\ expr = Decrement(Increment(Let("x", Number(2), Identifier("x"))))
    /\ result = Ok(<<Mov(Registry(Rax), Constant(2)), Store(1), Load(1),
                     Inc(Registry(Rax)), Dec(Registry(Rax))>>)

\* C10: Number(v) compiles in a fresh environment to the single instruction
\* Mov(rax, Constant(v)), rendered as the one line "mov rax, " followed by
\* the decimal form of v.
C10_NumberIsOneMov ==
    expr[1] = "Number" =>
        /\ Compiled => result = Ok(<<Mov(Registry(Rax), Constant(expr[2]))>>)
        /\ Rendered =>
              /\ Len(text) > Len(MovRaxPrefix)
              /\ SubSeq(text, 1, Len(MovRaxPrefix)) = MovRaxPrefix
              /\ \A i \in 1..Len(text) : text[i] # "\n"
              /\ IsDecimalOf(SubSeq(text, Len(MovRaxPrefix) + 1, Len(text)), expr[2])

C10_Witness ==
    /\ pc = "rendered"
    /\ expr = Number(-420)
    /\ text = <<"m", "o", "v", " ", "r", "a", "x", ",", " ", "-", "4", "2", "0">>

LetIncrementSource == <<"l", "e", "t", " ", "x", " ", "=", " ", "4", "2", "0", ";", " ", "x", "+", "+">>

LetIncrementAssembly == <<"m", "o", "v", " ", "r", "a", "x", ",", " ", "4", "2", "0", "\n", "m", "o", "v", " ", "r", "s", "p", " ", "+", " ", "-", "1", ",", " ", "r", "a", "x", "\n", "m", "o", "v", " ", "r", "a", "x", ",", " ", "r", "s", "p", " ", "+", " ", "-", "1", "\n", "i", "n", "c", " ", "r", "a", "x">>

\* C11: on the source text 'let x = 420; x++' tokenize, parse and compile
\* all succeed, the instruction list is exactly Mov(rax, 420),
\* Mov([rsp - 1], rax), Mov(rax, [rsp - 1]), Inc(rax), and asm_to_string
\* renders it as exactly four lines in that order.
C11_LetIncrementPipeline ==
    input = LetIncrementSource =>
        /\ pc \notin {"lex_error", "lex_panic", "parse_error", "failed"}
        /\ pc \in {"compiled", "rendered"} =>
              result = Ok(<<Mov(Registry(Rax), Constant(420)),
                            Mov(RegistryOffset(Rsp, -1), Registry(Rax)),
                            Mov(Registry(Rax), RegistryOffset(Rsp, -1)),
                            Inc(Registry(Rax))>>)
        /\ pc = "rendered" => text = LetIncrementAssembly

C11_Witness ==
    /\ input = LetIncrementSource
    /\ pc = "rendered"
    /\ tokens = <<TLet, TIdentifier(<<"x">>), Assign, TNumber(420), LineEnd,
                  TIdentifier(<<"x">>), TIncrement>>
    /\ expr = Let(<<"x">>, Number(420), Increment(Identifier(<<"x">>)))
    /\ Len(result[2]) = 4

\* the lookups env.get(identifier) that find nothing, among the calls made
\* while compiling expression in e
FailedLookups(expression, e) ==
    {d \in Calls(expression, e) :
        d.expr[1] = "Identifier" /\ EnvGet(d.env, d.expr[2]) = <<"None">>}

\* C12: a call of compile_expression fails exactly when some Identifier
\* lookup made during its traversal fails; a failure of any call made for
\* a sub-expression is returned by the enclosing call as that same error,
\* and a failed call returns the error alone, with no instruction list.
C12_FailsIffLookupFails ==
    Compiled =>
        \A c \in RunCalls :
            /\ IsErr(c.out.res) <=> FailedLookups(c.expr, c.env) # {}
            /\ \A d \in Calls(c.expr, c.env) :
                  IsErr(d.out.res) => c.out.res = d.out.res
            /\ IsErr(c.out.res) => c.out.res = Err(Unit)

C12_Witness ==
    /\ pc = "failed"
    /\ expr = Increment(Let("x", Number(2), Increment(Identifier("y"))))
    /\ result = Err(Unit)

\* the first index at or after start whose character is not in class
\* (Len(input) + 1 when the run reaches the end of the text)
EndOfRun(start, class) ==
    CHOOSE e \in start..(Len(input) + 1) :
        /\ \A i \in start..(e - 1) : input[i] \in class
        /\ e > Len(input) \/ input[e] \notin class

\* tokenize is about to read the character at pos
AtChar == pc = "scan" /\ pos <= Len(input)

\* the character after the one at pos, "" at the end of the text
NextChar == IF pos + 1 <= Len(input) THEN input[pos + 1] ELSE ""

\* where the digits of the Number that starts at pos begin: at pos, after a
\* single '-' at pos, or 0 when no Number starts at pos
NumberDigitsStart ==
    IF input[pos] \in DigitChars THEN pos
    ELSE IF input[pos] = "-" /\ NextChar \in DigitChars THEN pos + 1
    ELSE 0

\* this step pushes exactly the token t and moves to position p
Pushes(t, p) == tokens' = Append(tokens, t) /\ pos' = p /\ pc' = "scan"

\* this step makes tokenize return an error value
ReturnsLexError == pc' = "lex_error" /\ IsErr(lexed')

\* C14: when tokenize reads a Number (a digit run, or a '-' and a digit
\* run) and the character right after the digit run is alphabetic, it
\* returns an error.
C14_NumberThenLetterErrors ==
    [][(/\ AtChar
        /\ NumberDigitsStart # 0
        /\ LET e == EndOfRun(NumberDigitsStart, DigitChars)
           IN  e <= Len(input) /\ input[e] \in AlphabeticChars)
       => ReturnsLexError]_vars

\* C15: tokenize returns a token sequence or an error value on every input
\* and never aborts, whatever the length of its digit runs.
C15_TokenizeNeverPanics ==
    /\ pc # "lex_panic"
    /\ lexed # << >> => IsOk(lexed) \/ IsErr(lexed)

Source5MinusMinus3 == <<"5", "-", "-", "3">>

Source5Minus3 == <<"5", "-", "3">>

\* C16: at '+' tokenize pushes Increment and consumes two characters when
\* the next character is '+', and returns an error otherwise; at '-' it
\* pushes Decrement and consumes two characters when the next character is
\* '-', pushes a Number that is not positive and consumes the '-' and the
\* digit run when the next character is a digit, and returns an error
\* otherwise, the end of the text included.  '5--3' is Number(5),
\* Decrement, Number(3) and '5-3' is Number(5), Number(-3).
C16_PlusMinusDispatch ==
    /\ [][(AtChar /\ input[pos] = "+") =>
             IF NextChar = "+" THEN Pushes(TIncrement, pos + 2)
             ELSE ReturnsLexError]_vars
    /\ [][(AtChar /\ input[pos] = "-") =>
             IF NextChar = "-" THEN Pushes(TDecrement, pos + 2)
             ELSE IF NextChar \in DigitChars
             THEN \E t \in {tokens'[k] : k \in DOMAIN tokens'} :
                     /\ t[1] = "Number"
                     /\ t[2] <= 0
                     /\ Pushes(t, EndOfRun(pos + 1, DigitChars))
             ELSE ReturnsLexError]_vars
    /\ [](pc = "tokenized" /\ input = Source5MinusMinus3
            => tokens = <<TNumber(5), TDecrement, TNumber(3)>>)
    /\ [](pc = "tokenized" /\ input = Source5Minus3
            => tokens = <<TNumber(5), TNumber(-3)>>)

\* the characters that continue a word
WordChars == AlphanumericChars \cup {"_"}

SourceLetx == <<"l", "e", "t", "x">>

SourceLetUnderscore == <<"l", "e", "t", "_">>

SourceLet1 == <<"l", "e", "t", "1">>

SourceWordThenLet == <<"a", "_", "1", " ", "l", "e", "t">>

\* C17: when tokenize reads an alphabetic character it pushes one token
\* for the whole maximal run of alphanumeric or underscore characters that
\* starts there: Let when the run is exactly 'let', otherwise Identifier
\* carrying the run ('letx', 'let_' and 'let1' are Identifiers).  A word
\* starts neither at an underscore, which is an invalid-character error,
\* nor at a digit, where only a Number can be pushed.
C17_WordsAreOneToken ==
    /\ [][(AtChar /\ input[pos] \in AlphabeticChars) =>
             LET e   == EndOfRun(pos, WordChars)
                 run == SubSeq(input, pos, e - 1)
             IN  Pushes(IF run = <<"l", "e", "t">> THEN TLet ELSE TIdentifier(run), e)]_vars
    /\ [][(AtChar /\ input[pos] = "_") =>
             /\ ReturnsLexError
             /\ lexed' = Err(<<"Invalid character: ", "_">>)]_vars
    /\ [][(AtChar /\ input[pos] \in DigitChars /\ pc' = "scan") =>
             /\ Len(tokens') = Len(tokens) + 1
             /\ tokens'[Len(tokens')][1] = "Number"]_vars
    /\ [](pc = "tokenized" /\ input = SourceLetx => tokens = <<TIdentifier(SourceLetx)>>)
    /\ [](pc = "tokenized" /\ input = SourceLetUnderscore
            => tokens = <<TIdentifier(SourceLetUnderscore)>>)
    /\ [](pc = "tokenized" /\ input = SourceLet1 => tokens = <<TIdentifier(SourceLet1)>>)

C17_Witness ==
    /\ pc = "tokenized"
    /\ input = SourceWordThenLet
    /\ tokens = <<TIdentifier(<<"a", "_", "1">>), TLet>>

\* parse has returned for the token slice in tokens
Parsed == pc \in {"start", "parse_error"}

\* the token slice ( tokens )
Parenthesized == <<LParen>> \o tokens \o <<RParen>>

\* C18: when parse_expression accepts the whole of a token slice ts, then
\* parse_factor on ( ts ) returns the same expression and the index after
\* the ')', at index 0 and behind another token alike, and parse returns
\* the same expression for ( ts ) as for ts.
C18_ParenthesesTransparent ==
    (Parsed /\ IsOk(parsed) /\ parse_expression(tokens, 0)[2][2] = Len(tokens)) =>
        /\ parse_factor(Parenthesized, 0) = Ok(<<parsed[2], Len(tokens) + 2>>)
        /\ parse_factor(<<TIncrement>> \o Parenthesized, 1)
              = Ok(<<parsed[2], Len(tokens) + 3>>)
        /\ parse(Parenthesized) = parsed

C18_Witness ==
    /\ pc = "start"
    /\ tokens = <<TLet, TIdentifier("x"), Assign, TNumber(5), LineEnd, TIdentifier("x")>>
    /\ parsed = Ok(Let("x", Number(5), Identifier("x")))
    /\ parse_factor(Parenthesized, 0) = Ok(<<Let("x", Number(5), Identifier("x")), 8>>)

\* the number of '++' and '--' tokens that follow each other from index on
RECURSIVE OperatorRun(_)
OperatorRun(index) ==
    IF index < Len(tokens) /\ tokens[index + 1] \in {TIncrement, TDecrement}
    THEN 1 + OperatorRun(index + 1)
    ELSE 0

\* operand wrapped by the k operators that start at token index first, the
\* last of them outermost
RECURSIVE Wrapped(_, _, _)
Wrapped(operand, first, k) ==
    IF k = 0 THEN operand
    ELSE IF tokens[first + k] = TIncrement
         THEN Increment(Wrapped(operand, first, k - 1))
         ELSE Decrement(Wrapped(operand, first, k - 1))

\* C19: at every index, parse_term returns the error of parse_factor, or
\* the factor wrapped by all the '++' and '--' tokens that directly follow
\* it, the first innermost, and the index after the last of them: the
\* factor and exactly k operators are consumed and the chain ends at the
\* first token that is neither.  '5++--' is Decrement(Increment(Number(5))).
C19_PostfixChainLeftFold ==
    Parsed =>
        /\ \A i \in 0..Len(tokens) :
              LET f == parse_factor(tokens, i)
              IN  IF IsErr(f) THEN parse_term(tokens, i) = f
                  ELSE LET k == OperatorRun(f[2][2])
                       IN  parse_term(tokens, i)
                             = Ok(<<Wrapped(f[2][1], f[2][2], k), f[2][2] + k>>)
        /\ tokens = <<TNumber(5), TIncrement, TDecrement>> =>
              parsed = Ok(Decrement(Increment(Number(5))))

C19_Witness ==
    /\ pc = "start"
    /\ tokens = <<TNumber(5), TIncrement, TDecrement>>
    /\ parsed = Ok(Decrement(Increment(Number(5))))
    /\ parse_term(tokens, 0) = Ok(<<Decrement(Increment(Number(5))), 3>>)

\* the lengths n for which the first n tokens are one complete expression
CompletePrefixes ==
    {n \in 1..Len(tokens) :
        LET r == parse_expression(SubSeq(tokens, 1, n), 0)
        IN  IsOk(r) /\ r[2][2] = n}

C21_ParseConsumesAllTokens ==
    (Parsed /\ IsOk(parse_expression(tokens, 0))) =>
        IF parse_expression(tokens, 0)[2][2] = Len(tokens)
        THEN IsOk(parsed)
        ELSE IsErr(parsed)

\* the token at 0-based index i is of the given kind
KindAt(i, kind) == i < Len(tokens) /\ tokens[i + 1][1] = kind

\* what the claim C22 expects of parse_expression at a Let token at index i
LetClauseOutcome(i) ==
    IF ~KindAt(i + 1, "Identifier") THEN Err(<<"Expected identifier after 'let'">>)
    ELSE IF ~KindAt(i + 2, "Assign") THEN Err(<<"Expected '=' in let binding">>)
    ELSE LET v == parse_expression(tokens, i + 3)
         IN  IF IsErr(v) THEN v
             ELSE IF ~KindAt(v[2][2], "LineEnd")
                  THEN Err(<<"Expected ';' at the end of let binding">>)
                  ELSE LET b == parse_expression(tokens, v[2][2] + 1)
                       IN  IF IsErr(b) THEN b
                           ELSE Ok(<<Let(tokens[i + 2][2], v[2][1], b[2][1]), b[2][2]>>)

\* C22: at a Let token the parser requires an Identifier, an Assign, an
\* expression, a LineEnd and an expression, in this order; the first one
\* that is missing or of another kind gives the error that names it
\* (identifier after 'let', '=', ';', or the error of the expression), so
\* a clause without identifier and without '=' reports the identifier; a
\* Let node comes only from a complete clause, and at index 0 the outcome
\* is what parse returns.
C22_LetClauseOrder ==
    Parsed =>
        /\ \A i \in 0..(Len(tokens) - 1) :
              KindAt(i, "Let") => parse_expression(tokens, i) = LetClauseOutcome(i)
        /\ KindAt(0, "Let") =>
              /\ IsErr(LetClauseOutcome(0)) => parsed = LetClauseOutcome(0)
              /\ IsOk(LetClauseOutcome(0)) => parsed = Ok(LetClauseOutcome(0)[2][1])
        /\ (KindAt(0, "Let") /\ ~KindAt(1, "Identifier") /\ ~KindAt(2, "Assign")) =>
              parsed = Err(<<"Expected identifier after 'let'">>)
        /\ \A i \in 0..(Len(tokens) - 1) :
              (KindAt(i, "Let") /\ IsOk(parse_expression(tokens, i))) =>
                  /\ parse_expression(tokens, i)[2][1][1] = "Let"
                  /\ KindAt(i + 1, "Identifier") /\ KindAt(i + 2, "Assign")
                  /\ \E s \in (i + 4)..(Len(tokens) - 2) : KindAt(s, "LineEnd")

C22_Witness ==
    /\ pc = "parse_error"
    /\ tokens = <<TLet, TNumber(2), TNumber(2), LineEnd>>
    /\ parsed = Err(<<"Expected identifier after 'let'">>)

\* C23: at every index, parse_factor returns 'Unexpected end of input'
\* when there is no token, an error naming the token when it is not a
\* Number, an Identifier or a '(', and 'Expected closing parenthesis' when
\* it is a '(' whose inner expression parses and is not directly followed
\* by ')', whether the slice ends there or another token stands there.
C23_FactorErrors ==
    Parsed =>
        \A i \in 0..Len(tokens) :
            /\ i = Len(tokens) =>
                  parse_factor(tokens, i) = Err(<<"Unexpected end of input">>)
            /\ (i < Len(tokens)
                  /\ tokens[i + 1][1] \notin {"Number", "Identifier", "LParen"}) =>
                  parse_factor(tokens, i) = Err(<<"Unexpected token: ", tokens[i + 1]>>)
            /\ KindAt(i, "LParen") =>
                  LET inner == parse_expression(tokens, i + 1)
                  IN  (IsOk(inner) /\ ~KindAt(inner[2][2], "RParen")) =>
                          parse_factor(tokens, i)
                            = Err(<<"Expected closing parenthesis">>)

C23_Witness ==
    /\ pc = "parse_error"
    /\ tokens = <<LParen, TNumber(2), LineEnd>>
    /\ parsed = Err(<<"Expected closing parenthesis">>)
    /\ parse_factor(tokens, 2) = Err(<<"Unexpected token: ", LineEnd>>)
    /\ parse_factor(tokens, 3) = Err(<<"Unexpected end of input">>)

RECURSIVE SplitLines(_)
\* the pieces of t between its newline characters
SplitLines(t) ==
    IF \A i \in 1..Len(t) : t[i] # "\n" THEN <<t>>
    ELSE LET i == CHOOSE j \in 1..Len(t) :
                     t[j] = "\n" /\ \A h \in 1..(j - 1) : t[h] # "\n"
         IN  <<SubSeq(t, 1, i - 1)>> \o SplitLines(SubSeq(t, i + 1, Len(t)))

Mnemonic(instruction) ==
    CASE instruction[1] = "Inc" -> <<"i", "n", "c">>
      [] instruction[1] = "Dec" -> <<"d", "e", "c">>
      [] instruction[1] = "Mov" -> <<"m", "o", "v">>
      [] instruction[1] = "Add" -> <<"a", "d", "d">>
      [] instruction[1] = "Sub" -> <<"s", "u", "b">>

\* the operands of an instruction, in order
Operands(instruction) ==
    IF instruction[1] \in {"Inc", "Dec"} THEN <<instruction[2]>>
    ELSE <<instruction[2], instruction[3]>>

\* mnemonic, a space, the operands separated by ", "
LineOf(instruction) ==
    LET ops == Operands(instruction)
    IN  Mnemonic(instruction) \o <<" ">> \o arg_to_string(ops[1])
        \o (IF Len(ops) = 2 THEN <<",", " ">> \o arg_to_string(ops[2]) ELSE << >>)

\* C24: asm_to_string renders every instruction list: the empty list as
\* the empty string, and a list of n >= 1 instructions as exactly n lines
\* in list order, separated by single newlines with none at the start or
\* the end, each line the lower-case mnemonic, a space and the operands
\* separated by ', '.
C24_OneLinePerInstruction ==
    pc = "rendered" =>
        /\ result[2] = << >> => text = << >>
        /\ result[2] # << >> =>
              /\ text[1] # "\n" /\ text[Len(text)] # "\n"
              /\ Len(SplitLines(text)) = Len(result[2])
              /\ \A k \in 1..Len(result[2]) :
                    SplitLines(text)[k] = LineOf(result[2][k])

C24_Witness ==
    /\ pc = "rendered"
    /\ result = Ok(<<Add(Registry(Rax), Constant(-10)), Sub(Registry(Rsp), Constant(8)),
                     Inc(Registry(Rax))>>)
    /\ text = <<"a", "d", "d", " ", "r", "a", "x", ",", " ", "-", "1", "0", "\n", "s", "u", "b", " ", "r", "s", "p", ",", " ", "8", "\n", "i", "n", "c", " ", "r", "a", "x">>

\* the mnemonic of a register
RegisterName(reg) == IF reg = Rax THEN <<"r", "a", "x">> ELSE <<"r", "s", "p">>

\* s is how the claim C25 says the operand arg is written
WrittenAs(arg, s) ==
    CASE arg[1] = "Constant" -> IsDecimalOf(s, arg[2])
      [] arg[1] = "Registry" -> s = RegisterName(arg[2])
      [] arg[1] = "RegistryOffset" ->
            /\ Len(s) > 6
            /\ SubSeq(s, 1, 3) = RegisterName(arg[2])
            /\ SubSeq(s, 4, 6) = <<" ", "+", " ">>
            /\ IsDecimalOf(SubSeq(s, 7, Len(s)), arg[3])

\* the operands of the instructions of the rendered list
RenderedOperands ==
    UNION {{Operands(result[2][k])[j] : j \in 1..Len(Operands(result[2][k]))} :
             k \in 1..Len(result[2])}

\* C25: arg_to_string writes RegistryOffset(reg, k) as the register, ' + '
\* and the decimal form of k, with the '+' also before a negative k;
\* Constant(k) as the decimal form of k; Registry(reg) as 'rax' or 'rsp'.
\* Every stack-slot operand of a compiled list is [rsp - n] with n >= 1 and
\* is written 'rsp + -n'.
C25_ArgRendering ==
    pc = "rendered" =>
        /\ \A a \in RenderedOperands : WrittenAs(a, arg_to_string(a))
        /\ (Len(result[2]) = 1 /\ result[2][1][1] \in {"Inc", "Dec"}) =>
              WrittenAs(result[2][1][2], SubSeq(text, 5, Len(text)))
        /\ expr # << >> =>
              \A a \in RenderedOperands :
                  a[1] = "RegistryOffset" =>
                      /\ a[2] = Rsp /\ a[3] <= -1
                      /\ SubSeq(arg_to_string(a), 1, 7)
                            = <<"r", "s", "p", " ", "+", " ", "-">>
                      /\ IsDecimalOf(SubSeq(arg_to_string(a), 8, Len(arg_to_string(a))),
                                     -a[3])

C25_Witness ==
    /\ pc = "rendered"
    /\ result = Ok(<<Dec(RegistryOffset(Rsp, -420))>>)
    /\ text = <<"d", "e", "c", " ", "r", "s", "p", " ", "+", " ", "-", "4", "2", "0">>

\* main has executed the operation named kind
Executed(kind) == \E i \in DOMAIN effects : effects[i][1] = kind

\* the assembly file was written, or the assembler or the linker was started
HandedOff == Executed("write_assembly") \/ Executed("nasm") \/ Executed("clang")

\* tokenize, parse and compile_expression have all returned Ok
AllStagesOk ==
    /\ lexed # << >> /\ IsOk(lexed)
    /\ parsed # << >> /\ IsOk(parsed)
    /\ result # << >> /\ IsOk(result)

\* one of tokenize, parse and compile_expression has failed
StageFailed ==
    \/ lexed # << >> /\ ~IsOk(lexed)
    \/ parsed # << >> /\ ~IsOk(parsed)
    \/ result # << >> /\ ~IsOk(result)

\* what the failed stage returned (tokenize before parse before compile)
FirstStageError ==
    IF lexed # << >> /\ ~IsOk(lexed) THEN lexed
    ELSE IF parsed # << >> /\ ~IsOk(parsed) THEN parsed
    ELSE result

\* C26: main writes the assembly file and starts the assembler and the
\* linker only after tokenize, parse and compile_expression have all
\* succeeded; on a run where one of them failed none of the three is ever
\* executed.
C26_HandOffOnlyAfterSuccess ==
    /\ HandedOff => AllStagesOk
    /\ StageFailed => ~HandedOff
    /\ Executed("nasm") => Executed("write_assembly")
    /\ Executed("clang") => Executed("nasm")

C26_Witness ==
    /\ pc = "exited"
    /\ input = LetIncrementSource
    /\ outcome = Ok(Unit)
    /\ effects = <<<<"create_dir_all">>, <<"write_assembly", "ok">>,
                   <<"nasm", "exit_success">>, <<"clang", "exit_success">>>>

\* C27: when tokenize, parse or compile_expression fails, main ends by
\* returning that stage's error, unchanged, as an error value; it does not
\* end by a panic.
C27_StageErrorReturned ==
    (pc = "exited" /\ StageFailed) =>
        /\ ~IsPanic(outcome)
        /\ IsErr(outcome)
        /\ outcome = FirstStageError

\* C28: when the assembler exits with a failure status, the linker is
\* never started and main ends with an error.
C28_LinkOnlyAfterAssemblerSuccess ==
    Executed("nasm") =>
        \A i \in DOMAIN effects :
            effects[i] = <<"nasm", "exit_failure">> =>
                /\ ~Executed("clang")
                /\ pc = "exited" => IsErr(outcome)

RECURSIVE LetNames(_)
\* the names of the Let nodes of an expression
LetNames(e) ==
    CASE e[1] = "Let" -> {e[2]} \cup LetNames(e[3]) \cup LetNames(e[4])
      [] e[1] \in {"Increment", "Decrement"} -> LetNames(e[2])
      [] OTHER -> {}

\* C29: no call of compile_expression removes a name or makes the
\* environment smaller; a Number or an Identifier node leaves it as it
\* was, an Increment or a Decrement node leaves it as its operand left it,
\* the add of a Let node binds or remaps its own name and nothing else,
\* and after a successful call the bound names are those at entry and the
\* names of all Let nodes of the expression.
C29_EnvGrowsMonotonically ==
    Compiled =>
        \A c \in RunCalls :
            /\ DOMAIN c.env \subseteq DOMAIN c.out.env
            /\ EnvLen(c.env) <= EnvLen(c.out.env)
            /\ c.expr[1] \in {"Number", "Identifier"} => c.out.env = c.env
            /\ c.expr[1] \in {"Increment", "Decrement"} =>
                  c.out.env = compile_expression(c.expr[2], c.env).env
            /\ c.expr[1] = "Let" =>
                  LET a == add(c.expr[2], c.env)
                  IN  /\ DOMAIN a.env = DOMAIN c.env \cup {c.expr[2]}
                      /\ \A n \in DOMAIN c.env \ {c.expr[2]} : a.env[n] = c.env[n]
                      /\ DOMAIN a.env \subseteq DOMAIN c.out.env
            /\ IsOk(c.out.res) =>
                  DOMAIN c.out.env = DOMAIN c.env \cup LetNames(c.expr)

C29_Witness ==
    /\ pc = "compiled"
    /\ expr = RebindThenBind
    /\ DOMAIN env = {"x", "y"}
    /\ \E c \in RunCalls : c.expr = Identifier("x") /\ DOMAIN c.env = {"x", "y"}

\* r is an error, or a result whose next index j has i < j <= Len(tokens)
Advances(r, i) == IsOk(r) => (i < r[2][2] /\ r[2][2] <= Len(tokens))

\* C30: every successful call of parse_expression, parse_let, parse_term
\* and parse_factor started at index i returns a next index j with
\* i < j <= Len(tokens), so the calls they make start at a larger index
\* each time; started at the end of the slice each of them returns an
\* error, and parse returns for every slice.
C30_ParserAdvances ==
    Parsed =>
        /\ \A i \in 0..Len(tokens) :
              /\ Advances(parse_expression(tokens, i), i)
              /\ Advances(parse_let(tokens, i), i)
              /\ Advances(parse_term(tokens, i), i)
              /\ Advances(parse_factor(tokens, i), i)
        /\ IsErr(parse_expression(tokens, Len(tokens)))
        /\ IsErr(parse_let(tokens, Len(tokens)))
        /\ IsErr(parse_term(tokens, Len(tokens)))
        /\ IsErr(parse_factor(tokens, Len(tokens)))
        /\ parsed = parse(tokens)

C30_Witness ==
    /\ pc = "start"
    /\ tokens = <<LParen, TLet, TIdentifier("x"), Assign, TNumber(2), LineEnd,
                  TIdentifier("x"), RParen, TIncrement>>
    /\ parsed = Ok(Increment(Let("x", Number(2), Identifier("x"))))
    /\ parse_expression(tokens, 0) = Ok(<<parsed[2], 9>>)
    /\ parse_let(tokens, 2) = Ok(<<Let("x", Number(2), Identifier("x")), 7>>)

====
